---- MODULE Spec2Model ----
(***************************************************************************)
(* Model of the running-records pipeline of wansho/running.                *)
(*                                                                         *)
(*   src/sync.py    parse_mi_records, fetch_strava_activities,             *)
(*                  merge_and_write, export_csv, main                      *)
(*   src/render.py  get_running_data, get_days_monthly, get_attendance     *)
(*                                                                         *)
(* A record keeps the fields the pipeline reads after construction:        *)
(* run_id, source, distance (metres), moving_time (seconds), start_date,   *)
(* start_date_local and pace.  The remaining fields of the dictionaries    *)
(* (name, elapsed_time, type, ...) are written once and never read again.  *)
(*                                                                         *)
(* Timestamps are seconds since 2023-01-01 00:00:00 UTC.  A pace is the    *)
(* pair <<minutes, seconds>> of the string "M:SS"; the empty sequence is   *)
(* None.                                                                   *)
(***************************************************************************)
EXTENDS Integers, Sequences, FiniteSets, TLC

VARIABLES
    pc,          \* position of main(): start, parsed_mi, fetched, merged, exported, crashed
    remote,      \* what the Strava API answers during the run
    mi,          \* main's local mi
    strava,      \* main's local strava
    ledger,      \* main's local combined: [raised, records]
    mi_out,      \* data/running_records_manual_add.json
    strava_out,  \* data/running_records_strava_sync.json
    json_file,   \* data/running_records_combined.json
    csv_file,    \* data/running.csv
    stats,       \* what get_running_data returned to the statistics stage
    dts,         \* argument of get_attendance
    this_year,   \* datetime.now().year inside get_attendance
    att,         \* what get_attendance returned
    today,       \* datetime.now() inside get_last_12_months_distances
    runs,        \* the activities handed to get_last_12_months_distances
    monthly,     \* what get_last_12_months_distances returned
    one_in,      \* a history line or a remote activity handed to its adapter (at most one)
    one_rec,     \* the record the adapter built from it (at most one)
    one_row,     \* the CSV row export_csv writes for it (at most one)
    lst,         \* the list object handed to make_circular
    lst_before,  \* its elements when make_circular was called
    circ         \* what make_circular returned

vars == <<pc, remote, mi, strava, ledger, mi_out, strava_out,
          json_file, csv_file, stats, dts, this_year, att,
          today, runs, monthly, one_in, one_rec, one_row, lst, lst_before, circ>>

pipeVars == <<pc, remote, mi, strava, ledger, mi_out, strava_out,
              json_file, csv_file, stats>>

attVars == <<dts, this_year, att>>

monthsVars == <<today, runs, monthly>>

paceVars == <<one_in, one_rec, one_row>>

circVars == <<lst, lst_before, circ>>

pureVars == <<today, runs, monthly, one_in, one_rec, one_row, lst, lst_before, circ>>

-----------------------------------------------------------------------------
(* Bounds *)

\* data lines of the history export after the header line
MaxMiLines == 2

\* activities the remote API yields in one run
MaxActs == 1

\* length of the date list handed to get_attendance
MaxDts == 30

\* activities handed to get_last_12_months_distances
MaxRuns == 2

\* moving time, in seconds, of a remote activity parsed on its own
MaxMovingTime == 40

\* length of a series handed to make_circular
MaxSeries == 4

-----------------------------------------------------------------------------
(* Generic helpers *)

SeqsUpTo(S, n) == UNION {[1..k -> S] : k \in 0..n}

Range(s) == {s[i] : i \in DOMAIN s}

NoPace == <<>>

NoFile == [exists |-> FALSE, records |-> <<>>]

FileOf(recs) == [exists |-> TRUE, records |-> recs]

\* no call of get_last_12_months_distances has been made
MonthsIdle ==
    /\ today = [year |-> 2023, month |-> 1, day |-> 1]
    /\ runs = <<>>
    /\ monthly = [state |-> "none", pairs |-> <<>>]

\* no record has been built outside the pipeline
PaceIdle == one_in = <<>> /\ one_rec = <<>> /\ one_row = <<>>

\* no call of make_circular has been made
CircIdle ==
    /\ lst = <<>>
    /\ lst_before = <<>>
    /\ circ = [state |-> "none", value |-> <<>>]

-----------------------------------------------------------------------------
(* sync.py: calculate_pace *)

\* round(n / d) for n >= 0, d > 0: Python 3 rounds a tie to the even integer
RoundHalfEven(n, d) ==
    LET fl  == n \div d
        rem == n % d
    IN  IF 2 * rem < d THEN fl
        ELSE IF 2 * rem > d THEN fl + 1
        ELSE IF fl % 2 = 0 THEN fl ELSE fl + 1

\* calculate_pace testing only the distance for zero
calculate_pace_distance_only(distance_m, moving_time_s) ==
    IF distance_m = 0 THEN NoPace
    ELSE LET total_seconds == RoundHalfEven(moving_time_s * 1000, distance_m)
         IN  <<total_seconds \div 60, total_seconds % 60>>

\* calculate_pace with int() applied without round()
calculate_pace_truncating(distance_m, moving_time_s) ==
    IF distance_m = 0 \/ moving_time_s = 0 THEN NoPace
    ELSE LET total_seconds == (moving_time_s * 1000) \div distance_m
         IN  <<total_seconds \div 60, total_seconds % 60>>

\* "%d:%02d" % divmod(total_seconds, 60), or None
calculate_pace(distance_m, moving_time_s) ==
    IF distance_m = 0 \/ moving_time_s = 0 THEN NoPace
    ELSE LET total_seconds == RoundHalfEven(moving_time_s * 1000, distance_m)
         IN  <<total_seconds \div 60, total_seconds % 60>>

-----------------------------------------------------------------------------
(* sync.py: parse_datetime_safe *)

\* datetime.strptime over the four formats, then datetime.fromisoformat, on
\* the date strings of the model.  kind "naive" is a datetime without
\* tzinfo, "aware" one with tzinfo (only fromisoformat yields it), "none" is
\* None; ts is the instant.
DateTable ==
    "2023-01-01 00:00:00"       :> [kind |-> "naive", ts |-> 0]
 @@ "2023-01-02 07:00:00"       :> [kind |-> "naive", ts |-> 111600]
 @@ "2023/01/02 07:00:00"       :> [kind |-> "naive", ts |-> 111600]
 @@ "2023-01-02 07:00:00+08:00" :> [kind |-> "aware", ts |-> 82800]
 @@ "2023-01-03 09:00:00+08:00" :> [kind |-> "aware", ts |-> 176400]

parse_datetime_safe(s) ==
    IF s = "" THEN [kind |-> "none", ts |-> 0]
    ELSE IF s \in DOMAIN DateTable THEN DateTable[s]
    ELSE [kind |-> "none", ts |-> 0]

\* datetime.strftime("%Y-%m-%d %H:%M:%S") on the instants of the model
Strftime ==
    0 :> "2023-01-01 00:00:00" @@ 111600 :> "2023-01-02 07:00:00"

-----------------------------------------------------------------------------
(* sync.py: parse_mi_records *)

\* float(parts[1]) * 1000.0 rounded to 0.1, in metres; a token outside the
\* table makes float() raise
MiDistance == "5.0" :> 5000 @@ "3.0" :> 3000 @@ "0.0" :> 0

\* the moving-time token in seconds: mm:ss, hh:mm:ss, raw seconds; any
\* other token leaves moving_time = 0
MiMovingTime == "25:30" :> 1530 @@ "1:00:00" :> 3600 @@ "900" :> 900

MiHeader == [ntok |-> 8, dist |-> "distance", mt |-> "time",
             d |-> "date", t |-> "time"]

\* the data lines a history export holds in the model; ntok is len(parts)
MiLines == {
    [ntok |-> 8, dist |-> "5.0", mt |-> "25:30",   d |-> "2023-01-01", t |-> "00:00:00"],
    [ntok |-> 8, dist |-> "0.0", mt |-> "--",      d |-> "2023.01.02", t |-> "07:00:00"],
    [ntok |-> 8, dist |-> "3.0", mt |-> "1:00:00", d |-> "2023-01-02", t |-> "07:00:00+08:00"],
    [ntok |-> 7, dist |-> "5.0", mt |-> "25:30",   d |-> "2023-01-01", t |-> "00:00:00"],
    [ntok |-> 8, dist |-> "abc", mt |-> "900",     d |-> "2023/01/02", t |-> "07:00:00"] }

FirstMiId == 100000

MiLineOk(line) == line.ntok >= 8 /\ line.dist \in DOMAIN MiDistance

MiRecord(line, run_id) ==
    LET distance    == MiDistance[line.dist]
        moving_time == IF line.mt \in DOMAIN MiMovingTime
                       THEN MiMovingTime[line.mt] ELSE 0
        start_date  == line.d \o " " \o line.t
    IN  [run_id           |-> run_id,
         distance         |-> distance,
         moving_time      |-> moving_time,
         start_date       |-> start_date,
         start_date_local |-> start_date,
         pace             |-> calculate_pace(distance, moving_time),
         source           |-> "mi"]

\* the loop over raw = lines[1:], run_id advancing on every appended record
RECURSIVE MiLoop(_, _, _)
MiLoop(raw, results, run_id) ==
    IF raw = <<>> THEN results
    ELSE IF MiLineOk(Head(raw))
         THEN MiLoop(Tail(raw), Append(results, MiRecord(Head(raw), run_id)), run_id + 1)
         ELSE MiLoop(Tail(raw), results, run_id)

\* the returned list; file is [exists, records] with records the lines
MiResults(file) ==
    IF ~file.exists \/ Len(file.records) <= 1 THEN <<>>
    ELSE MiLoop(Tail(file.records), <<>>, FirstMiId)

\* MI_OUTPUT_FILE is written only when the loop was reached
MiWrites(file) == file.exists /\ Len(file.records) > 1

MiFiles ==
    {NoFile, FileOf(<<>>)}
    \cup {FileOf(<<MiHeader>> \o raw) : raw \in SeqsUpTo(MiLines, MaxMiLines)}

\* what one call does, over every file it can find: the returned list and
\* whether MI_OUTPUT_FILE is written
MiOutcomes == {[records |-> MiResults(f), writes |-> MiWrites(f)] : f \in MiFiles}

parse_mi_records ==
    /\ pc = "start"
    /\ \E o \in MiOutcomes :
        /\ mi' = o.records
        /\ mi_out' = IF o.writes THEN FileOf(o.records) ELSE mi_out
    /\ pc' = "parsed_mi"
    /\ UNCHANGED <<remote, strava, ledger, strava_out, json_file, csv_file, stats>>
    /\ UNCHANGED attVars
    /\ UNCHANGED pureVars

-----------------------------------------------------------------------------
(* sync.py: parse_activity, check_access, fetch_strava_activities *)

\* the activities the remote API holds in the model.  An attribute that is
\* None is the empty sequence; sport_ok = FALSE is an activity whose
\* sport_type has no .root, on which parse_activity raises.
Activities == {
    [id |-> 555,    distance |-> <<5000>>, moving_time |-> 1530,
     start_date |-> <<0>>,      start_date_local |-> <<0>>,  sport_ok |-> TRUE],
    [id |-> 100000, distance |-> <<>>,     moving_time |-> 0,
     start_date |-> <<111600>>, start_date_local |-> <<>>,   sport_ok |-> TRUE],
    [id |-> 7,      distance |-> <<3000>>, moving_time |-> 900,
     start_date |-> <<>>,       start_date_local |-> <<>>,   sport_ok |-> TRUE],
    [id |-> 9,      distance |-> <<3000>>, moving_time |-> 900,
     start_date |-> <<0>>,      start_date_local |-> <<0>>,  sport_ok |-> FALSE] }

ActivityOk(a) == a.sport_ok

parse_activity(a) ==
    LET distance    == IF a.distance = <<>> THEN 0 ELSE a.distance[1]
        moving_time == a.moving_time
        sd  == IF a.start_date = <<>> THEN "" ELSE Strftime[a.start_date[1]]
        sdl == IF a.start_date_local = <<>> THEN ""
               ELSE Strftime[a.start_date_local[1]]
    IN  [run_id           |-> a.id,
         distance         |-> distance,
         moving_time      |-> moving_time,
         start_date       |-> sd,
         start_date_local |-> sdl,
         pace             |-> calculate_pace(distance, moving_time),
         source           |-> "strava"]

\* the loop over get_activities: an activity parse_activity raises on is
\* skipped
RECURSIVE StravaLoop(_)
StravaLoop(acts) ==
    IF acts = <<>> THEN <<>>
    ELSE IF ActivityOk(Head(acts))
         THEN <<parse_activity(Head(acts))>> \o StravaLoop(Tail(acts))
         ELSE StravaLoop(Tail(acts))

\* What the API does in one run: auth_ok is whether refresh_access_token
\* succeeds; acts are the activities get_activities yields, in order;
\* fails is whether the iteration raises after yielding them.
NoRemote == [auth_ok |-> FALSE, acts |-> <<>>, fails |-> FALSE]

Injective(s) == \A i, j \in DOMAIN s : s[i].id = s[j].id => i = j

Remotes ==
    {NoRemote}
    \cup {[auth_ok |-> TRUE, acts |-> acts, fails |-> f] :
            acts \in {s \in SeqsUpTo(Activities, MaxActs) : Injective(s)},
            f \in BOOLEAN}

\* fetch_strava_activities discarding what it retrieved when the iteration raises
FetchResultsAllOrNothing(r) ==
    IF ~r.auth_ok \/ r.fails THEN <<>> ELSE StravaLoop(r.acts)

\* the list fetch_strava_activities returns
FetchResults(r) == IF ~r.auth_ok THEN <<>> ELSE StravaLoop(r.acts)

fetch_strava_activities ==
    /\ pc = "parsed_mi"
    /\ \E r \in Remotes :
        /\ remote' = r
        /\ strava' = FetchResults(r)
        /\ strava_out' = IF r.auth_ok THEN FileOf(FetchResults(r)) ELSE strava_out
    /\ pc' = "fetched"
    /\ UNCHANGED <<mi, ledger, mi_out, json_file, csv_file, stats>>
    /\ UNCHANGED attVars
    /\ UNCHANGED pureVars

-----------------------------------------------------------------------------
(* sync.py: merge_and_write *)

DateOf(r) == IF r.start_date_local # "" THEN r.start_date_local ELSE r.start_date

\* key_func with the run_id left out of an undated record's key
key_func_no_id(r) ==
    LET dt == parse_datetime_safe(DateOf(r))
    IN  IF dt.kind = "none" THEN [grp |-> 1, kind |-> "none", val |-> 0]
        ELSE [grp |-> 0, kind |-> dt.kind, val |-> dt.ts]

\* key_func: <<0, dt>> for a dated record, <<1, run_id>> for an undated one;
\* kind tells a naive dt from an aware one
key_func(r) ==
    LET dt == parse_datetime_safe(DateOf(r))
    IN  IF dt.kind = "none" THEN [grp |-> 1, kind |-> "none", val |-> r.run_id]
        ELSE [grp |-> 0, kind |-> dt.kind, val |-> dt.ts]

\* tuple comparison a < b of two keys that compare without error
KeyLess(a, b) == a.grp < b.grp \/ (a.grp = b.grp /\ a.val < b.val)

\* datetime's < raises TypeError between a naive and an aware value; sorted()
\* cannot order the dated block without comparing such a pair
SortRaises(recs) ==
    \E i, j \in DOMAIN recs :
        key_func(recs[i]).kind = "naive" /\ key_func(recs[j]).kind = "aware"

\* sorted(): stable, an element goes after every element that is not greater
RECURSIVE InsertStable(_, _)
InsertStable(sorted, r) ==
    IF sorted = <<>> THEN <<r>>
    ELSE IF KeyLess(key_func(r), key_func(sorted[Len(sorted)]))
         THEN Append(InsertStable(SubSeq(sorted, 1, Len(sorted) - 1), r),
                     sorted[Len(sorted)])
         ELSE Append(sorted, r)

RECURSIVE SortedByKey(_)
SortedByKey(recs) ==
    IF recs = <<>> THEN <<>>
    ELSE InsertStable(SortedByKey(SubSeq(recs, 1, Len(recs) - 1)), recs[Len(recs)])

Returned(recs) == [raised |-> FALSE, records |-> recs]

Raised == [raised |-> TRUE, records |-> <<>>]

\* merge_and_write dropping a remote record whose date a history record has
MergeResultDedup(mi_recs, strava_recs) ==
    LET kept == SelectSeq(strava_recs,
                    LAMBDA x : \A i \in DOMAIN mi_recs : DateOf(mi_recs[i]) # DateOf(x))
        combined == mi_recs \o kept
    IN  IF SortRaises(combined) THEN Raised
        ELSE Returned(SortedByKey(combined))

\* combined_sorted, or the TypeError that leaves merge_and_write
MergeResult(mi_recs, strava_recs) ==
    LET combined == mi_recs \o strava_recs
    IN  IF SortRaises(combined) THEN Raised
        ELSE Returned(SortedByKey(combined))

merge_and_write ==
    /\ pc = "fetched"
    /\ LET res == MergeResult(mi, strava)
       IN  /\ ledger' = res
           /\ json_file' = IF res.raised THEN json_file ELSE FileOf(res.records)
           /\ pc' = IF res.raised THEN "crashed" ELSE "merged"
    /\ UNCHANGED <<remote, mi, strava, mi_out, strava_out, csv_file, stats>>
    /\ UNCHANGED attVars
    /\ UNCHANGED pureVars

-----------------------------------------------------------------------------
(* sync.py: export_csv, main *)

\* the header line; render.py reads only its first cell
CsvHeader == [DT |-> "DT", distance |-> 0, heart |-> 0, pace |-> NoPace, ncols |-> 4]

\* f"{dist_km:.2f}" in hundredths of a kilometre (the distances of the model
\* are whole multiples of 10 m, so no tie arises)
CsvDistance(distance_m) == RoundHalfEven(distance_m, 10)

\* one written row: dt, distance, the fixed heart rate 120, pace ("-" is
\* NoPace); no latitude or longitude column is written
CsvRow(r) ==
    [DT       |-> DateOf(r),
     distance |-> CsvDistance(r.distance),
     heart    |-> 120,
     pace     |-> r.pace,
     ncols    |-> 4]

RECURSIVE CsvRows(_)
CsvRows(records) ==
    IF records = <<>> THEN <<>>
    ELSE <<CsvRow(Head(records))>> \o CsvRows(Tail(records))

\* export_csv opening the file in mode "a"
CsvAfterExportAppend(records, old) ==
    IF records = <<>> THEN old
    ELSE FileOf(old.records \o <<CsvHeader>> \o CsvRows(records))

\* the file after export_csv(records, out_path), old being the file before:
\* nothing is written for an empty list, else mode "w" replaces the file
CsvAfterExport(records, old) ==
    IF records = <<>> THEN old
    ELSE FileOf(<<CsvHeader>> \o CsvRows(records))

export_csv ==
    /\ pc = "merged"
    /\ csv_file' = CsvAfterExport(ledger.records, csv_file)
    /\ pc' = "exported"
    /\ UNCHANGED <<remote, mi, strava, ledger, mi_out, strava_out,
                   json_file, stats>>
    /\ UNCHANGED attVars
    /\ UNCHANGED pureVars

NoStats == [state |-> "none", dts |-> <<>>, accs |-> <<>>,
            distances |-> <<>>, paces |-> <<>>]

\* the process has ended (normally, or on the TypeError of the sort); the
\* script is started again with fresh locals, the files stay
Restart ==
    /\ pc \in {"exported", "crashed"}
    /\ pc' = "start"
    /\ remote' = NoRemote
    /\ mi' = <<>>
    /\ strava' = <<>>
    /\ ledger' = Returned(<<>>)
    /\ stats' = NoStats
    /\ UNCHANGED <<mi_out, strava_out, json_file, csv_file>>
    /\ UNCHANGED attVars
    /\ UNCHANGED pureVars

-----------------------------------------------------------------------------
(* render.py: get_running_data *)

\* the strings datetime.strptime(s, "%Y-%m-%d %H:%M:%S") accepts
StrictDate(s) == s \in {Strftime[t] : t \in DOMAIN Strftime}

\* a data row on which the loop body raises ValueError: the timestamp is
\* not in the strict form, or the pace cell is "-"
RowRaises(row) == ~StrictDate(row.DT) \/ row.pace = NoPace

\* start_lat and start_lng are None when the row has no fifth and sixth cell
RowHasLatLng(row) == row.ncols > 5

\* a row that reaches data.append
RowKept(row) == RowHasLatLng(row) /\ row.distance > 0

RowEntry(row) ==
    LET secs == row.pace[2]
        mins == IF secs = 60 THEN row.pace[1] + 1 ELSE row.pace[1]
    IN  [dt       |-> parse_datetime_safe(row.DT).ts,
         distance |-> row.distance,
         pace     |-> mins * 60 + (IF secs = 60 THEN 0 ELSE secs)]

RECURSIVE DataLoop(_)
DataLoop(rows) ==
    IF rows = <<>> THEN <<>>
    ELSE IF Head(rows).DT = "DT" THEN DataLoop(Tail(rows))
    ELSE IF RowKept(Head(rows)) THEN <<RowEntry(Head(rows))>> \o DataLoop(Tail(rows))
    ELSE DataLoop(Tail(rows))

\* data.sort(key=lambda t: t[0]): stable
RECURSIVE InsertByDt(_, _)
InsertByDt(sorted, e) ==
    IF sorted = <<>> THEN <<e>>
    ELSE IF e.dt < sorted[Len(sorted)].dt
         THEN Append(InsertByDt(SubSeq(sorted, 1, Len(sorted) - 1), e),
                     sorted[Len(sorted)])
         ELSE Append(sorted, e)

RECURSIVE SortByDt(_)
SortByDt(data) ==
    IF data = <<>> THEN <<>>
    ELSE InsertByDt(SortByDt(SubSeq(data, 1, Len(data) - 1)), data[Len(data)])

RECURSIVE SumDistance(_, _)
SumDistance(data, n) ==
    IF n = 0 THEN 0 ELSE SumDistance(data, n - 1) + data[n].distance

\* the tuple get_running_data returns, or the exception that leaves it
RunningData(file) ==
    IF ~file.exists
       \/ \E i \in DOMAIN file.records :
            file.records[i].DT # "DT" /\ RowRaises(file.records[i])
    THEN [NoStats EXCEPT !.state = "raised"]
    ELSE LET data == SortByDt(DataLoop(file.records))
         IN  [state     |-> "returned",
              dts       |-> [i \in DOMAIN data |-> data[i].dt],
              accs      |-> [i \in DOMAIN data |-> SumDistance(data, i)],
              distances |-> [i \in DOMAIN data |-> data[i].distance],
              paces     |-> [i \in DOMAIN data |-> data[i].pace]]

\* render.py is run on the CSV once sync.py has ended
get_running_data ==
    /\ pc \in {"exported", "crashed"}
    /\ stats.state = "none"
    /\ stats' = RunningData(csv_file)
    /\ UNCHANGED <<pc, remote, mi, strava, ledger, mi_out, strava_out,
                   json_file, csv_file>>
    /\ UNCHANGED attVars
    /\ UNCHANGED pureVars

-----------------------------------------------------------------------------
(* The pipeline *)

Init ==
    /\ pc = "start"
    /\ remote = NoRemote
    /\ mi = <<>>
    /\ strava = <<>>
    /\ ledger = Returned(<<>>)
    /\ mi_out = NoFile
    /\ strava_out = NoFile
    /\ json_file = NoFile
    /\ csv_file = NoFile
    /\ stats = NoStats
    /\ dts = <<>>
    /\ this_year = 2023
    /\ att = [state |-> "none", all |-> <<>>, year |-> <<>>]
    /\ MonthsIdle
    /\ PaceIdle
    /\ CircIdle

Next ==
    \/ parse_mi_records
    \/ fetch_strava_activities
    \/ merge_and_write
    \/ export_csv
    \/ get_running_data
    \/ Restart

Spec == Init /\ [][Next]_vars

-----------------------------------------------------------------------------
(* render.py: get_days_monthly, get_attendance *)

IsLeap(y) == (y % 4 = 0 /\ y % 100 # 0) \/ y % 400 = 0

\* calendar.monthrange(y, m)[1]
DaysInMonth(y, m) ==
    IF m = 2 THEN (IF IsLeap(y) THEN 29 ELSE 28)
    ELSE IF m \in {4, 6, 9, 11} THEN 30 ELSE 31

\* the months the inner range() visits in year y; month_start and month_end
\* are 0 for None (both are falsy in the conditional expressions)
MonthsVisited(y, year_start, year_end, month_start, month_end) ==
    (IF month_start # 0 /\ y = year_start THEN month_start ELSE 1)
    .. (IF month_end # 0 /\ y = year_end THEN month_end ELSE 12)

RECURSIVE DaysUpTo(_, _, _, _, _, _)
DaysUpTo(y, m, year_start, year_end, month_start, month_end) ==
    IF y < year_start THEN 0
    ELSE DaysUpTo(y - 1, m, year_start, year_end, month_start, month_end)
         + (IF m \in MonthsVisited(y, year_start, year_end, month_start, month_end)
            THEN DaysInMonth(y, m) ELSE 0)

\* the dictionary days_monthly: its keys are the months visited in some year
get_days_monthly(year_start, year_end, month_start, month_end) ==
    LET keys == {m \in 1..12 : \E y \in year_start..year_end :
                    m \in MonthsVisited(y, year_start, year_end, month_start, month_end)}
    IN  [m \in keys |->
            DaysUpTo(year_end, m, year_start, year_end, month_start, month_end)]

\* len(groupby(ds, lambda d: d.month)[m]), 0 when m is no key
CountMonth(ds, m) == Cardinality({i \in DOMAIN ds : ds[i].month = m})

\* the float count / days * 100 as the fraction num / den
Percent(count, days) == [num |-> count * 100, den |-> days]

Zero == [num |-> 0, den |-> 1]

AttRaised == [state |-> "raised", all |-> <<>>, year |-> <<>>]

\* (attendance_all, attendance_this_year), or the exception that leaves the
\* function: IndexError on dts[0] of an empty list, KeyError on a month
\* that days_all_monthly does not hold
GetAttendance(ds, now_year) ==
    IF ds = <<>> THEN AttRaised
    ELSE
    LET idx == {i \in DOMAIN ds : ds[i].year = now_year}
        ds_this_year == [k \in 1..Cardinality(idx) |->
                            ds[CHOOSE i \in idx :
                                Cardinality({j \in idx : j < i}) = k - 1]]
        days_all  == get_days_monthly(ds[1].year, ds[Len(ds)].year,
                                      ds[1].month, ds[Len(ds)].month)
        days_year == get_days_monthly(now_year, now_year, 0, 0)
    IN  IF \E m \in 1..12 : CountMonth(ds, m) > 0 /\ m \notin DOMAIN days_all
        THEN AttRaised
        ELSE [state |-> "returned",
              all   |-> [m \in 1..12 |->
                            IF CountMonth(ds, m) > 0
                            THEN Percent(CountMonth(ds, m), days_all[m])
                            ELSE Zero],
              year  |-> [m \in 1..12 |->
                            IF CountMonth(ds_this_year, m) > 0
                            THEN Percent(CountMonth(ds_this_year, m), days_year[m])
                            ELSE Zero]]

\* the days activities fall on in the model
Dates == {
    [year |-> 2022, month |-> 12, day |-> 30],
    [year |-> 2023, month |-> 2,  day |-> 1],
    [year |-> 2023, month |-> 2,  day |-> 14],
    [year |-> 2024, month |-> 3,  day |-> 5] }

NotBefore(a, b) ==
    \/ a.year > b.year
    \/ a.year = b.year /\ a.month > b.month
    \/ a.year = b.year /\ a.month = b.month /\ a.day >= b.day

\* the caller's list grows in chronological order (get_running_data sorts it)
AddDate ==
    /\ att.state = "none"
    /\ Len(dts) < MaxDts
    /\ \E d \in Dates :
        /\ IF dts = <<>> THEN TRUE ELSE NotBefore(d, dts[Len(dts)])
        /\ dts' = Append(dts, d)
    /\ UNCHANGED <<this_year, att>>
    /\ UNCHANGED pipeVars
    /\ UNCHANGED pureVars

get_attendance ==
    /\ att.state = "none"
    /\ att' = GetAttendance(dts, this_year)
    /\ UNCHANGED <<dts, this_year>>
    /\ UNCHANGED pipeVars
    /\ UNCHANGED pureVars

InitAtt ==
    /\ pc = "start"
    /\ remote = NoRemote
    /\ mi = <<>>
    /\ strava = <<>>
    /\ ledger = Returned(<<>>)
    /\ mi_out = NoFile
    /\ strava_out = NoFile
    /\ json_file = NoFile
    /\ csv_file = NoFile
    /\ stats = NoStats
    /\ dts = <<>>
    /\ this_year \in {2023, 2024}
    /\ att = [state |-> "none", all |-> <<>>, year |-> <<>>]
    /\ MonthsIdle
    /\ PaceIdle
    /\ CircIdle

NextAtt ==
    \/ AddDate
    \/ get_attendance

SpecAtt == InitAtt /\ [][NextAtt]_vars

-----------------------------------------------------------------------------
(* Properties *)

Dated(r) == parse_datetime_safe(DateOf(r)).kind # "none"

Instant(r) == parse_datetime_safe(DateOf(r)).ts

\* main holds the list merge_and_write returned
Merged == pc \in {"merged", "exported"}

Occurrences(s, x) == Cardinality({i \in DOMAIN s : s[i] = x})

\* the data lines of a CSV file
DataRows(file) == SelectSeq(file.records, LAMBDA row : row.DT # "DT")

\* C1: merging the two adapter outputs in the other order, or again, returns
\* the same sequence of records.
C1_MergeOrderIndependent ==
    Merged => /\ MergeResult(mi, strava) = ledger
              /\ MergeResult(strava, mi) = ledger

C3_TieBreakById ==
    Merged =>
        \A i, j \in DOMAIN ledger.records :
            (/\ i < j
             /\ Dated(ledger.records[i])
             /\ Dated(ledger.records[j])
             /\ Instant(ledger.records[i]) = Instant(ledger.records[j]))
            => ledger.records[i].run_id <= ledger.records[j].run_id

\* C4: the returned ledger is a permutation of the concatenated inputs: every
\* input record occurs as often as in the inputs, with all its fields.
C4_LedgerIsPermutation ==
    Merged =>
        /\ Len(ledger.records) = Len(mi) + Len(strava)
        /\ \A x \in Range(mi \o strava) \cup Range(ledger.records) :
            Occurrences(ledger.records, x) = Occurrences(mi \o strava, x)

\* a rearranged ledger with an undated record and one run present from both
\* sources
C4_Witness ==
    /\ Merged
    /\ ledger.records # mi \o strava
    /\ \E i \in DOMAIN ledger.records : ~Dated(ledger.records[i])
    /\ \E i \in DOMAIN mi : \E j \in DOMAIN strava :
        /\ Dated(mi[i])
        /\ DateOf(mi[i]) = DateOf(strava[j])
        /\ mi[i].distance = strava[j].distance

\* C5: no record with distance <= 0 is in the CSV, in the combined JSON or in
\* a statistics series.
C5_NoNonPositiveDistance ==
    /\ \A i \in DOMAIN json_file.records : json_file.records[i].distance > 0
    /\ \A i \in DOMAIN csv_file.records :
        csv_file.records[i].DT # "DT" => csv_file.records[i].distance > 0
    /\ \A i \in DOMAIN stats.distances : stats.distances[i] > 0

\* C6: no two records of a merged ledger share an id.
C6_UniqueIds ==
    Merged =>
        \A i, j \in DOMAIN ledger.records :
            ledger.records[i].run_id = ledger.records[j].run_id => i = j

\* the fetch of this run has been made
Fetched == pc \in {"fetched", "merged", "exported", "crashed"}

\* the ids of the activities the API yielded and parse_activity accepts
YieldedIds ==
    LET ok == SelectSeq(remote.acts, LAMBDA a : a.sport_ok)
    IN  [k \in DOMAIN ok |-> ok[k].id]

C8_ArtifactsHoldLatest ==
    pc = "exported" =>
        /\ json_file = FileOf(ledger.records)
        /\ DataRows(csv_file) = CsvRows(ledger.records)

\* C8 amended: the export step leaves the combined JSON holding exactly the
\* run's ledger; a non-empty ledger replaces the CSV by the header and that
\* ledger's rows, an empty ledger leaves the CSV as it was.
C8_ExportOverwrites ==
    [][(pc = "merged" /\ pc' = "exported") =>
        /\ json_file' = FileOf(ledger.records)
        /\ IF ledger.records = <<>>
           THEN csv_file' = csv_file
           ELSE csv_file' = FileOf(<<CsvHeader>> \o CsvRows(ledger.records))]_vars

\* a run with an empty ledger has ended and the CSV of an earlier run is
\* still there
C8_Witness ==
    /\ pc = "exported"
    /\ ledger.records = <<>>
    /\ csv_file.exists
    /\ DataRows(csv_file) # <<>>

ZeroSeries == [m \in 1..12 |-> Zero]

\* C9: get_attendance on an empty date list returns twelve 0.0 values for
\* each of its two series.
C9_EmptyAttendanceIsZero ==
    (att.state # "none" /\ dts = <<>>) =>
        /\ att.state = "returned"
        /\ att.all = ZeroSeries
        /\ att.year = ZeroSeries

InPercentRange(v) == 0 <= v.num /\ v.num <= 100 * v.den

\* C10: for a non-empty chronological date list each of the 12 values of
\* both series lies within [0, 100].
C10_AttendanceInRange ==
    (att.state # "none" /\ dts # <<>>) =>
        /\ att.state = "returned"
        /\ \A m \in 1..12 : InPercentRange(att.all[m]) /\ InPercentRange(att.year[m])

-----------------------------------------------------------------------------
(* render.py: get_last_12_months_distances *)

\* today - relativedelta(months=i) with 0 <= i <= 11, as relativedelta adds
\* itself to a date: the month moves back, wrapping into the year before, and
\* the day is cut to the length of the month reached
MonthsBackNoWrap(t, i) ==
    LET m     == t.month - i
        month == IF m < 1 THEN m + 12 ELSE m
    IN  [year  |-> t.year,
         month |-> month,
         day   |-> IF t.day < DaysInMonth(t.year, month)
                   THEN t.day ELSE DaysInMonth(t.year, month)]

MonthsBack(t, i) ==
    LET m     == t.month - i
        year  == IF m < 1 THEN t.year - 1 ELSE t.year
        month == IF m < 1 THEN m + 12 ELSE m
    IN  [year  |-> year,
         month |-> month,
         day   |-> IF t.day < DaysInMonth(year, month)
                   THEN t.day ELSE DaysInMonth(year, month)]

\* strftime("%Y-%m"): the label "YYYY-MM" is the pair <<year, month>>; for
\* four-digit years the order of the strings is the order of the pairs
YearMonth(d) == <<d.year, d.month>>

\* sum(dist for _, dist in monthly_distances[year_month]), over the first n
\* activities; no activity of that month leaves the 0.0 of the list
RECURSIVE MonthTotal(_, _, _)
MonthTotal(rs, n, label) ==
    IF n = 0 THEN 0
    ELSE MonthTotal(rs, n - 1, label)
         + (IF YearMonth(rs[n].dt) = label THEN rs[n].distance ELSE 0)

\* the list last_12_months: i runs from 11 down to 0
Last12Months(t, rs) ==
    [k \in 1..12 |->
        LET label == YearMonth(MonthsBack(t, 12 - k))
        IN  [label |-> label, total |-> MonthTotal(rs, Len(rs), label)]]

\* the days datetime.now() falls on in the model
Todays ==
    {[year |-> y, month |-> m, day |-> d] :
        y \in {2023, 2024}, m \in 1..12, d \in {1, 29, 31}}
    \ {t \in [year : {2023, 2024}, month : 1..12, day : {1, 29, 31}] :
        t.day > DaysInMonth(t.year, t.month)}

\* the activities (dt, distance) of the model, distance in kilometres
RunEntries == {
    [dt |-> [year |-> 2022, month |-> 12, day |-> 30], distance |-> 5],
    [dt |-> [year |-> 2023, month |-> 2,  day |-> 1],  distance |-> 3],
    [dt |-> [year |-> 2023, month |-> 2,  day |-> 14], distance |-> 10],
    [dt |-> [year |-> 2021, month |-> 3,  day |-> 5],  distance |-> 4] }

get_last_12_months_distances ==
    /\ monthly.state = "none"
    /\ monthly' = [state |-> "returned", pairs |-> Last12Months(today, runs)]
    /\ UNCHANGED <<today, runs>>
    /\ UNCHANGED <<pipeVars, attVars, paceVars, circVars>>

\* main has not run
PipeIdle ==
    /\ pc = "start"
    /\ remote = NoRemote
    /\ mi = <<>>
    /\ strava = <<>>
    /\ ledger = Returned(<<>>)
    /\ mi_out = NoFile
    /\ strava_out = NoFile
    /\ json_file = NoFile
    /\ csv_file = NoFile
    /\ stats = NoStats

\* no call of get_attendance has been made
AttIdle ==
    /\ dts = <<>>
    /\ this_year = 2023
    /\ att = [state |-> "none", all |-> <<>>, year |-> <<>>]

InitMonths ==
    /\ PipeIdle
    /\ AttIdle
    /\ PaceIdle
    /\ CircIdle
    /\ today \in Todays
    /\ runs \in SeqsUpTo(RunEntries, MaxRuns)
    /\ monthly = [state |-> "none", pairs |-> <<>>]

NextMonths == get_last_12_months_distances

SpecMonths == InitMonths /\ [][NextMonths]_vars

\* the calendar month after <<year, month>>
MonthAfter(label) ==
    IF label[2] = 12 THEN <<label[1] + 1, 1>> ELSE <<label[1], label[2] + 1>>

LabelBefore(a, b) == a[1] < b[1] \/ (a[1] = b[1] /\ a[2] < b[2])

\* C11: get_last_12_months_distances returns exactly 12 pairs whose labels
\* are strictly ascending consecutive calendar months, the last one being
\* the current month.
C11_TwelveConsecutiveMonths ==
    monthly.state = "returned" =>
        /\ Len(monthly.pairs) = 12
        /\ monthly.pairs[12].label = <<today.year, today.month>>
        /\ \A k \in 1..11 :
            /\ monthly.pairs[k + 1].label = MonthAfter(monthly.pairs[k].label)
            /\ LabelBefore(monthly.pairs[k].label, monthly.pairs[k + 1].label)

\* a window that starts in the year before, taken on the 31st, with one
\* month holding activities and one activity outside the window
C11_Witness ==
    /\ monthly.state = "returned"
    /\ today.day = 31
    /\ monthly.pairs[1].label[1] < today.year
    /\ \E k \in 1..12 : monthly.pairs[k].total > 0
    /\ \E i \in DOMAIN runs :
        \A k \in 1..12 : monthly.pairs[k].label # YearMonth(runs[i].dt)

-----------------------------------------------------------------------------
(* sync.py: one record through its adapter, calculate_pace and export_csv *)

\* history lines with every distance token and moving-time token of the model
PaceLines ==
    {[ntok |-> 8, dist |-> dist, mt |-> mt, d |-> "2023-01-02", t |-> "07:00:00"] :
        dist \in DOMAIN MiDistance, mt \in DOMAIN MiMovingTime \cup {"--"}}

\* remote activities over a range of distances (None, 0 and metres) and
\* moving times
PaceActivities ==
    {[id |-> 555, distance |-> dist, moving_time |-> mt,
      start_date |-> <<0>>, start_date_local |-> <<0>>, sport_ok |-> TRUE] :
        dist \in {<<>>, <<0>>, <<7>>, <<1000>>, <<2000>>, <<3000>>},
        mt \in 0..MaxMovingTime}

\* the body of the loop of parse_mi_records on one line
parse_mi_line ==
    /\ one_in = <<>>
    /\ \E line \in PaceLines :
        /\ MiLineOk(line)
        /\ one_in' = <<line>>
        /\ one_rec' = <<MiRecord(line, FirstMiId)>>
    /\ UNCHANGED one_row
    /\ UNCHANGED <<pipeVars, attVars, monthsVars, circVars>>

\* parse_activity on one activity
parse_one_activity ==
    /\ one_in = <<>>
    /\ \E a \in PaceActivities :
        /\ ActivityOk(a)
        /\ one_in' = <<a>>
        /\ one_rec' = <<parse_activity(a)>>
    /\ UNCHANGED one_row
    /\ UNCHANGED <<pipeVars, attVars, monthsVars, circVars>>

\* the body of the loop of export_csv on that record
export_one_row ==
    /\ one_rec # <<>>
    /\ one_row = <<>>
    /\ one_row' = <<CsvRow(one_rec[1])>>
    /\ UNCHANGED <<one_in, one_rec>>
    /\ UNCHANGED <<pipeVars, attVars, monthsVars, circVars>>

InitPace ==
    /\ PipeIdle
    /\ AttIdle
    /\ MonthsIdle
    /\ CircIdle
    /\ PaceIdle

NextPace ==
    \/ parse_mi_line
    \/ parse_one_activity
    \/ export_one_row

SpecPace == InitPace /\ [][NextPace]_vars

\* C12: a record of either adapter whose distance is 0 or whose moving time
\* is 0 has no pace, and its exported row holds the sentinel.
C12_NoPaceOnZero ==
    \A i \in DOMAIN one_rec :
        (one_rec[i].distance = 0 \/ one_rec[i].moving_time = 0) =>
            /\ one_rec[i].pace = NoPace
            /\ \A j \in DOMAIN one_row : one_row[j].pace = NoPace

\* an exported history record with a positive distance and no moving time
C12_Witness ==
    /\ one_rec # <<>>
    /\ one_row # <<>>
    /\ one_rec[1].source = "mi"
    /\ one_rec[1].distance > 0
    /\ one_rec[1].moving_time = 0

Abs(x) == IF x < 0 THEN -x ELSE x

\* C13: for a positive distance and a positive moving time the pace is M:SS
\* with SS in 00..59 and M*60+SS the whole second nearest to
\* moving_time / (distance / 1000); the history row with distance token 5.0
\* and moving time 25:30 gives distance 5000 and pace 5:06.
C13_PaceIsNearestSecond ==
    \A i \in DOMAIN one_rec :
        LET r == one_rec[i]
        IN  /\ (r.distance > 0 /\ r.moving_time > 0) =>
                /\ Len(r.pace) = 2
                /\ r.pace[1] >= 0
                /\ r.pace[2] \in 0..59
                /\ 2 * Abs((r.pace[1] * 60 + r.pace[2]) * r.distance
                           - r.moving_time * 1000) <= r.distance
            /\ (r.source = "mi" /\ one_in[i].dist = "5.0" /\ one_in[i].mt = "25:30") =>
                /\ r.distance = 5000
                /\ r.pace = <<5, 6>>

\* the history row of the example has been parsed
C13_Witness ==
    /\ one_rec # <<>>
    /\ one_rec[1].source = "mi"
    /\ one_in[1].dist = "5.0"
    /\ one_in[1].mt = "25:30"
    /\ one_rec[1].pace = <<5, 6>>

-----------------------------------------------------------------------------
(* render.py: make_circular *)

\* make_circular appending as soon as the list has an element
make_circular_from_one(l) ==
    IF Len(l) > 0 THEN Append(l, l[1]) ELSE l

\* the list after the call; the call returns this same list
make_circular(l) ==
    IF Len(l) > 1 THEN Append(l, l[1]) ELSE l

SeriesValues == {5, 10, 20, 30}

wrap_series ==
    /\ circ.state = "none"
    /\ lst_before' = lst
    /\ lst' = make_circular(lst)
    /\ circ' = [state |-> "returned", value |-> make_circular(lst)]
    /\ UNCHANGED <<pipeVars, attVars, monthsVars, paceVars>>

InitCircular ==
    /\ PipeIdle
    /\ AttIdle
    /\ MonthsIdle
    /\ PaceIdle
    /\ lst \in SeqsUpTo(SeriesValues, MaxSeries)
    /\ lst_before = <<>>
    /\ circ = [state |-> "none", value |-> <<>>]

NextCircular == wrap_series

SpecCircular == InitCircular /\ [][NextCircular]_vars

\* C14: on a series of n > 1 elements make_circular returns n+1 elements,
\* the last equal to the first and the first n unchanged; an empty or
\* single-element series is returned unchanged.
C14_CircularWrap ==
    circ.state = "returned" =>
        LET n == Len(lst_before)
        IN  IF n > 1
            THEN /\ Len(circ.value) = n + 1
                 /\ circ.value[n + 1] = lst_before[1]
                 /\ SubSeq(circ.value, 1, n) = lst_before
            ELSE circ.value = lst_before

\* the series 10, 20, 30 has been wrapped to 10, 20, 30, 10
C14_Witness ==
    /\ circ.state = "returned"
    /\ lst_before = <<10, 20, 30>>
    /\ circ.value = <<10, 20, 30, 10>>

\* the series 5 has been returned as it was
C14_WitnessSingle ==
    /\ circ.state = "returned"
    /\ lst_before = <<5>>
    /\ circ.value = <<5>>

-----------------------------------------------------------------------------
(* render.py on the exported rows *)

\* C15: no exported row aborts the statistics stage: with a row holding the
\* pace sentinel or a timestamp not in the strict form, get_running_data
\* still returns its series.
C15_NoRowAborts ==
    (stats.state # "none" /\ csv_file.exists) => stats.state = "returned"

\* C16: a row is excluded only for a distance <= 0: when get_running_data
\* returns, every data row of positive distance is in the series, with or
\* without start latitude and longitude.
C16_OnlyDistanceExcludes ==
    stats.state = "returned" =>
        Len(stats.dts) =
            Len(SelectSeq(DataRows(csv_file), LAMBDA row : row.distance > 0))

====
